---- MODULE Spec2Model ----
(***************************************************************************)
(* CRExtensionFS: the on-disk lifecycle of chrome extension packages.      *)
(* Strings are sequences of one-character strings, so that split('_'),     *)
(* semver.valid and semver.gt are computed on the text as the code does.   *)
(***************************************************************************)
EXTENDS Integers, Sequences, FiniteSets, TLC

(***************************************************************************)
(* Bounds                                                                  *)
(***************************************************************************)
\* greatest number of version directories on the disk at one time
MaxDirs == 3

(***************************************************************************)
(* JavaScript values                                                       *)
(***************************************************************************)
Undefined == [t |-> "undefined"]
Null == [t |-> "null"]
Str(s) == [t |-> "string", v |-> s]

UNINSTALL_FLAG == <<"_", "_", "u", "n", "i", "n", "s", "t", "a", "l", "l", "_", "_">>

(***************************************************************************)
(* Text helpers                                                            *)
(***************************************************************************)
DigitChars == <<"0", "1", "2", "3", "4", "5", "6", "7", "8", "9">>
\* the characters of the texts handled here, in code-unit order
CharOrder == <<"+", "-", ".", "/", "0", "1", "2", "3", "4", "5", "6", "7", "8", "9",
               "A", "B", "C", "D", "E", "F", "G", "H", "I", "J", "K", "L", "M",
               "N", "O", "P", "Q", "R", "S", "T", "U", "V", "W", "X", "Y", "Z", "_",
               "a", "b", "c", "d", "e", "f", "g", "h", "i", "j", "k", "l", "m",
               "n", "o", "p", "q", "r", "s", "t", "u", "v", "w", "x", "y", "z">>

Range(s) == {s[i] : i \in 1..Len(s)}
IsDigit(c) == c \in Range(DigitChars)
\* [0-9A-Za-z-]
IsIdentChar(c) == c \in Range(CharOrder) \ {"+", ".", "/", "_"}
DigitVal(c) == (CHOOSE i \in 1..Len(DigitChars) : DigitChars[i] = c) - 1
CharCode(c) == CHOOSE i \in 1..Len(CharOrder) : CharOrder[i] = c

\* String.prototype.indexOf(c) + 1
IndexOf(s, c) ==
  IF \E i \in 1..Len(s) : s[i] = c
  THEN CHOOSE i \in 1..Len(s) : s[i] = c /\ \A j \in 1..(i - 1) : s[j] # c
  ELSE 0

RECURSIVE split(_, _)
\* String.prototype.split(sep) for a one-character separator
split(s, sep) ==
  LET i == IndexOf(s, sep)
  IN IF i = 0 THEN <<s>>
     ELSE <<SubSeq(s, 1, i - 1)>> \o split(SubSeq(s, i + 1, Len(s)), sep)

RECURSIVE join(_, _)
\* Array.prototype.join(sep)
join(parts, sep) ==
  IF Len(parts) = 0 THEN <<>>
  ELSE IF Len(parts) = 1 THEN parts[1]
  ELSE parts[1] \o <<sep>> \o join(Tail(parts), sep)

\* Array.prototype.slice(1)
slice1(parts) == IF Len(parts) = 0 THEN <<>> ELSE Tail(parts)

RECURSIVE ToNumber(_)
ToNumber(s) ==
  IF Len(s) = 0 THEN 0
  ELSE 10 * ToNumber(SubSeq(s, 1, Len(s) - 1)) + DigitVal(s[Len(s)])

(***************************************************************************)
(* semver (strict mode), as used through semver.valid and semver.gt        *)
(***************************************************************************)
\* NUMERICIDENTIFIER: 0|[1-9]\d*
IsNumericIdentifier(s) ==
  /\ Len(s) > 0
  /\ \A i \in 1..Len(s) : IsDigit(s[i])
  /\ (Len(s) > 1 => s[1] # "0")

\* NONNUMERICIDENTIFIER: \d*[a-zA-Z-][a-zA-Z0-9-]*
IsNonNumericIdentifier(s) ==
  /\ Len(s) > 0
  /\ \A i \in 1..Len(s) : IsIdentChar(s[i])
  /\ \E i \in 1..Len(s) : ~IsDigit(s[i])

IsPrereleaseIdentifier(s) == IsNumericIdentifier(s) \/ IsNonNumericIdentifier(s)

\* BUILDIDENTIFIER: [0-9A-Za-z-]+
IsBuildIdentifier(s) == Len(s) > 0 /\ \A i \in 1..Len(s) : IsIdentChar(s[i])

\* the text without its leading v
StripV(s) == IF Len(s) > 0 /\ s[1] = "v" THEN Tail(s) ELSE s

\* the text before and after the first occurrence of a character
BeforeChar(s, c) == IF IndexOf(s, c) = 0 THEN s ELSE SubSeq(s, 1, IndexOf(s, c) - 1)
AfterChar(s, c) == IF IndexOf(s, c) = 0 THEN <<>> ELSE SubSeq(s, IndexOf(s, c) + 1, Len(s))

\* MAINVERSION, PRERELEASE and BUILD of a text without its leading v
MainPart(body) == BeforeChar(BeforeChar(body, "+"), "-")
HasPre(body) == IndexOf(BeforeChar(body, "+"), "-") # 0
PrePart(body) == AfterChar(BeforeChar(body, "+"), "-")
HasBuild(body) == IndexOf(body, "+") # 0
BuildPart(body) == AfterChar(body, "+")

\* (N)\.(N)\.(N)
IsMainVersion(nums) == Len(nums) = 3 /\ \A i \in 1..3 : IsNumericIdentifier(nums[i])
IsPrerelease(ids) == \A i \in 1..Len(ids) : IsPrereleaseIdentifier(ids[i])
IsBuild(ids) == \A i \in 1..Len(ids) : IsBuildIdentifier(ids[i])

\* re[FULL].test(s)
SemverMatches(s) ==
  /\ IsMainVersion(split(MainPart(StripV(s)), "."))
  /\ (HasPre(StripV(s)) => IsPrerelease(split(PrePart(StripV(s)), ".")))
  /\ (HasBuild(StripV(s)) => IsBuild(split(BuildPart(StripV(s)), ".")))

\* the fields of a SemVer from its parts
SemVerFields(nums, hasPre, pre, main) ==
  [major |-> ToNumber(nums[1]), minor |-> ToNumber(nums[2]), patch |-> ToNumber(nums[3]),
   prerelease |-> IF hasPre THEN split(pre, ".") ELSE <<>>,
   text |-> main \o (IF hasPre THEN <<"-">> \o pre ELSE <<>>)]

\* new SemVer(s): the numeric fields, the prerelease identifiers and the
\* canonical text major.minor.patch[-prerelease]
SemVer(s) ==
  SemVerFields(split(MainPart(StripV(s)), "."), HasPre(StripV(s)), PrePart(StripV(s)),
               MainPart(StripV(s)))

\* semver.valid(s): the canonical version text or null
semverValid(s) == IF SemverMatches(s) THEN Str(SemVer(s).text) ELSE Null

Sign(n) == IF n < 0 THEN -1 ELSE IF n > 0 THEN 1 ELSE 0

RECURSIVE compareText(_, _)
\* a < b ? -1 : a > b ? 1 : 0 on two strings
compareText(a, b) ==
  IF Len(a) = 0 /\ Len(b) = 0 THEN 0
  ELSE IF Len(a) = 0 THEN -1
  ELSE IF Len(b) = 0 THEN 1
  ELSE IF a[1] # b[1] THEN Sign(CharCode(a[1]) - CharCode(b[1]))
  ELSE compareText(Tail(a), Tail(b))

\* /^[0-9]+$/.test(a)
IsNumeric(a) == Len(a) > 0 /\ \A i \in 1..Len(a) : IsDigit(a[i])

\* semver compareIdentifiers(a, b)
compareIdentifiers(a, b) ==
  IF IsNumeric(a) /\ IsNumeric(b) THEN Sign(ToNumber(a) - ToNumber(b))
  ELSE IF IsNumeric(a) /\ ~IsNumeric(b) THEN -1
  ELSE IF IsNumeric(b) /\ ~IsNumeric(a) THEN 1
  ELSE compareText(a, b)

RECURSIVE comparePreFrom(_, _)
comparePreFrom(a, b) ==
  IF Len(a) = 0 /\ Len(b) = 0 THEN 0
  ELSE IF Len(b) = 0 THEN 1
  ELSE IF Len(a) = 0 THEN -1
  ELSE IF a[1] = b[1] THEN comparePreFrom(Tail(a), Tail(b))
  ELSE compareIdentifiers(a[1], b[1])

\* SemVer.prototype.comparePre
comparePre(x, y) ==
  IF Len(x.prerelease) > 0 /\ Len(y.prerelease) = 0 THEN -1
  ELSE IF Len(x.prerelease) = 0 /\ Len(y.prerelease) > 0 THEN 1
  ELSE IF Len(x.prerelease) = 0 /\ Len(y.prerelease) = 0 THEN 0
  ELSE comparePreFrom(x.prerelease, y.prerelease)

\* SemVer.prototype.compareMain
compareMain(x, y) ==
  IF x.major # y.major THEN Sign(x.major - y.major)
  ELSE IF x.minor # y.minor THEN Sign(x.minor - y.minor)
  ELSE Sign(x.patch - y.patch)

\* SemVer.prototype.compare
compareSemVer(x, y) == IF compareMain(x, y) # 0 THEN compareMain(x, y) ELSE comparePre(x, y)

\* semver.compare(a, b) on two version texts
semverCompare(a, b) == compareSemVer(SemVer(a), SemVer(b))

\* the comparison by text, character by character
semverGtLexical(a, b) == compareText(a, b) > 0

\* semver.gt(a, b)
semverGt(a, b) == semverCompare(a, b) > 0

(***************************************************************************)
(* Names that occur on the disk                                            *)
(***************************************************************************)
ext1 == <<"e", "x", "t", "1">>
ext2 == <<"e", "x", "t", "2">>
ExtensionIds == {ext1, ext2}

MANIFEST_JSON == <<"m", "a", "n", "i", "f", "e", "s", "t", ".", "j", "s", "o", "n">>
MESSAGES_JSON == <<"m", "e", "s", "s", "a", "g", "e", "s", ".", "j", "s", "o", "n">>
LOCALES_DIR == <<"_", "l", "o", "c", "a", "l", "e", "s">>

D_1_0_0_r1 == <<"1", ".", "0", ".", "0", "_", "r", "1">>
D_1_1_0_r1 == <<"1", ".", "1", ".", "0", "_", "r", "1">>
D_1_1_0_r2 == <<"1", ".", "1", ".", "0", "_", "r", "2">>
D_2_0_0_abc == <<"2", ".", "0", ".", "0", "_", "a", "b", "c">>
D_v1_2_0_a_b == <<"v", "1", ".", "2", ".", "0", "_", "a", "_", "b">>
D_1_10_0_r1 == <<"1", ".", "1", "0", ".", "0", "_", "r", "1">>
D_1_1_0_beta == <<"1", ".", "1", ".", "0", "-", "b", "e", "t", "a", ".", "2", "+", "b", "5", "_", "x">>
D_3_0_0 == <<"3", ".", "0", ".", "0">>
D_not_a_version == <<"n", "o", "t", "-", "a", "-", "v", "e", "r", "s", "i", "o", "n">>

V_1_0_0 == <<"1", ".", "0", ".", "0">>
V_1_1_0 == <<"1", ".", "1", ".", "0">>
V_2_0_0 == <<"2", ".", "0", ".", "0">>
V_1_2_0 == <<"1", ".", "2", ".", "0">>
V_v1_2_0 == <<"v", "1", ".", "2", ".", "0">>
V_1_10_0 == <<"1", ".", "1", "0", ".", "0">>
V_1_1_0_beta == <<"1", ".", "1", ".", "0", "-", "b", "e", "t", "a", ".", "2">>
V_1_9_9 == <<"1", ".", "9", ".", "9">>
V_1_0 == <<"1", ".", "0">>
V_3_0_0 == <<"3", ".", "0", ".", "0">>

(***************************************************************************)
(* Files and JSON documents                                                *)
(***************************************************************************)
NoFile == [k |-> "missing"]
NotJson == [k |-> "malformed"]
Json(v) == [k |-> "json", v |-> v]

Obj(props) == [t |-> "object", props |-> props]
Num(n) == [t |-> "number", v |-> n]
EmptyObject == Obj([key \in {} |-> Undefined])

\* o[key] of a value that is neither null nor undefined
GetProp(o, key) ==
  IF o.t = "object" /\ key \in DOMAIN o.props THEN o.props[key] ELSE Undefined

\* reading a property of null or undefined is a TypeError
MemberThrows(o) == o.t \in {"null", "undefined"}

\* the text __MSG_appName__ and the message key in it
MSG_APPNAME == <<"_", "_", "M", "S", "G", "_", "a", "p", "p", "N", "a", "m", "e", "_", "_">>
APPNAME == <<"a", "p", "p", "N", "a", "m", "e">>

\* a manifest.json that is a document
ManifestDoc(id, version, defaultLocale) ==
  Json(Obj([wavebox_extension_id |-> id, version |-> version,
            default_locale |-> defaultLocale, name |-> Str(MSG_APPNAME)]))

\* a messages.json that gives appName the message text
MessagesDoc(text) == Json(Obj(APPNAME :> Obj([message |-> Str(text)])))

NoLocales == [l \in {} |-> NoFile]
VersionDir(manifest, locales) == [manifest |-> manifest, locales |-> locales]
NoDirs == [n \in {} |-> VersionDir(NoFile, NoLocales)]
NoRoot == [exists |-> FALSE, flag |-> FALSE, dirs |-> NoDirs]

(***************************************************************************)
(* path.join, relative to CHROME_EXTENSION_INSTALL_PATH                    *)
(***************************************************************************)
RECURSIVE Flatten(_)
\* every argument cut at its separators
Flatten(parts) ==
  IF Len(parts) = 0 THEN <<>>
  ELSE split(parts[1], "/") \o Flatten(Tail(parts))

RECURSIVE Normalize(_, _)
\* path.normalize: empty and "." segments dropped, ".." takes the parent
Normalize(done, rest) ==
  IF Len(rest) = 0 THEN done
  ELSE IF rest[1] = <<>> \/ rest[1] = <<".">> THEN Normalize(done, Tail(rest))
  ELSE IF rest[1] = <<".", ".">> /\ Len(done) > 0 /\ done[Len(done)] # <<".", ".">>
       THEN Normalize(SubSeq(done, 1, Len(done) - 1), Tail(rest))
  ELSE Normalize(Append(done, rest[1]), Tail(rest))

\* path.join(RuntimePaths.CHROME_EXTENSION_INSTALL_PATH, ...parts)
pathJoin(parts) == [t |-> "string", segs |-> Normalize(<<>>, Flatten(parts))]

(***************************************************************************)
(* The file system under the install root                                  *)
(***************************************************************************)
RootExists(d, id) == id \in DOMAIN d /\ d[id].exists
DirExists(d, id, name) == RootExists(d, id) /\ name \in DOMAIN d[id].dirs

\* the content of the file at a path
FileAt(d, p) ==
  IF Len(p) = 3 /\ p[3] = MANIFEST_JSON /\ DirExists(d, p[1], p[2])
  THEN d[p[1]].dirs[p[2]].manifest
  ELSE IF /\ Len(p) = 5 /\ p[3] = LOCALES_DIR /\ p[5] = MESSAGES_JSON
          /\ DirExists(d, p[1], p[2])
          /\ p[4] \in DOMAIN d[p[1]].dirs[p[2]].locales
  THEN d[p[1]].dirs[p[2]].locales[p[4]]
  ELSE NoFile

\* fs.existsSync(path)
existsSync(d, path) ==
  LET p == path.segs
  IN \/ Len(p) = 1 /\ RootExists(d, p[1])
     \/ Len(p) = 2 /\ RootExists(d, p[1]) /\ p[2] = UNINSTALL_FLAG /\ d[p[1]].flag
     \/ Len(p) = 2 /\ DirExists(d, p[1], p[2])
     \/ FileAt(d, p) # NoFile

\* fs.readJsonSync(path): the parsed document, or a throw
readJsonSync(d, path) ==
  LET f == FileAt(d, path.segs)
  IN IF f.k = "json" THEN [threw |-> FALSE, v |-> f.v] ELSE [threw |-> TRUE, v |-> Undefined]

\* the names in an extension root
Children(d, id) ==
  IF RootExists(d, id)
  THEN DOMAIN d[id].dirs \cup (IF d[id].flag THEN {UNINSTALL_FLAG} ELSE {})
  ELSE {}

\* the orders in which a directory listing can come back
Listings(S) == {f \in [1..Cardinality(S) -> S] : \A i, j \in 1..Cardinality(S) : f[i] = f[j] => i = j}

\* fs.readdirSync(path) of an extension root, the platform giving the order
readdirSync(d, path, order) ==
  LET p == path.segs
  IN IF Len(p) = 1 /\ RootExists(d, p[1])
     THEN [threw |-> FALSE, v |-> order]
     ELSE [threw |-> TRUE, v |-> <<>>]

(***************************************************************************)
(* CRExtensionFS                                                           *)
(***************************************************************************)
\* one call of the fs module, as it is logged in the order it was made
FsCall(op, arg) == [op |-> op, arg |-> arg]

\* the result of a read that may throw
OrEmptyObject(r) == IF r.threw THEN EmptyObject ELSE r.v

\* the manifest read with nothing to catch what the read throws
readManifestUnguarded(d, extensionId, versionString) ==
  readJsonSync(d, pathJoin(<<extensionId, versionString, MANIFEST_JSON>>)).v

\* readManifest(extensionId, versionString)
readManifest(d, extensionId, versionString) ==
  OrEmptyObject(readJsonSync(d, pathJoin(<<extensionId, versionString, MANIFEST_JSON>>)))

\* the revision cut at its own first underscore
VersionInfoSecondComponent(extensionId, versionStr, components, version) ==
  IF version = Null THEN Undefined
  ELSE Obj([extensionId |-> Str(extensionId),
            version |-> version,
            revision |-> Str(IF Len(components) > 1 THEN components[2] ELSE <<>>),
            versionString |-> Str(versionStr)])

\* the VersionInfo of a directory name, given its components and its version
VersionInfo(extensionId, versionStr, components, version) ==
  IF version = Null THEN Undefined
  ELSE Obj([extensionId |-> Str(extensionId),
            version |-> version,
            revision |-> Str(join(slice1(components), "_")),
            versionString |-> Str(versionStr)])

\* the version of the first component
componentsInfo(extensionId, versionStr, components) ==
  VersionInfo(extensionId, versionStr, components, semverValid(components[1]))

\* the map callback of listInstalledVersions
toVersionInfo(extensionId, versionStr) ==
  componentsInfo(extensionId, versionStr, split(versionStr, "_"))

\* the filter that looks at the id of the manifest alone
manifestMatchesIdOnly(manifestInfo, info) ==
  GetProp(manifestInfo, "wavebox_extension_id") = GetProp(info, "extensionId")

\* the filter that looks at the version of the manifest alone
manifestMatchesVersionOnly(manifestInfo, info) ==
  GetProp(manifestInfo, "version") = GetProp(info, "version")

\* the second filter callback of listInstalledVersions, once the manifest is read
manifestMatches(manifestInfo, info) ==
  IF GetProp(manifestInfo, "wavebox_extension_id") # GetProp(info, "extensionId") THEN FALSE
  ELSE IF GetProp(manifestInfo, "version") # GetProp(info, "version") THEN FALSE
  ELSE TRUE

\* the manifest read for a VersionInfo, and the path it is read from
manifestPathOf(info) ==
  pathJoin(<<GetProp(info, "extensionId").v, GetProp(info, "versionString").v, MANIFEST_JSON>>)
manifestOf(d, info) ==
  readManifest(d, GetProp(info, "extensionId").v, GetProp(info, "versionString").v)

\* the first of a set of positions, 0 when there is none
FirstOf(positions) ==
  IF positions = {} THEN 0 ELSE CHOOSE i \in positions : \A j \in positions : i <= j

\* the fs calls of a scan whose manifest filter stops at the entry fault (0: never)
scanOps(dirPath, infos, fault) ==
  <<FsCall("readdirSync", dirPath)>> \o
  [i \in 1..(IF fault = 0 THEN Len(infos) ELSE fault) |->
     FsCall("readJsonSync", manifestPathOf(infos[i]))]

\* the manifest filter over the parsed entries; it throws at the first entry
\* whose manifest is null
scanResult(d, dirPath, infos, fault) ==
  IF fault # 0
  THEN [threw |-> TRUE, v |-> <<>>, ops |-> scanOps(dirPath, infos, fault)]
  ELSE [threw |-> FALSE,
        v |-> SelectSeq(infos, LAMBDA info : manifestMatches(manifestOf(d, info), info)),
        ops |-> scanOps(dirPath, infos, fault)]

filterByManifest(d, dirPath, infos) ==
  scanResult(d, dirPath, infos,
             FirstOf({i \in 1..Len(infos) : MemberThrows(manifestOf(d, infos[i]))}))

\* the map and the first filter of listInstalledVersions
parseListing(extensionId, versionStrings) ==
  SelectSeq([i \in 1..Len(versionStrings) |-> toVersionInfo(extensionId, versionStrings[i])],
            LAMBDA info : info # Undefined)

\* the listing, empty when readdirSync throws
OrEmptyListing(listed) == IF listed.threw THEN <<>> ELSE listed.v

\* listInstalledVersions(extensionId); order is the order readdirSync lists in
listInstalledVersions(d, extensionId, order) ==
  filterByManifest(d, pathJoin(<<extensionId>>),
                   parseListing(extensionId,
                                OrEmptyListing(readdirSync(d, pathJoin(<<extensionId>>), order))))

\* a flag looked for under every extension root, not under rootPath alone
isSetForRemovalAnywhere(d, rootPath) ==
  \E id \in ExtensionIds : existsSync(d, pathJoin(<<id, UNINSTALL_FLAG>>))

\* isSetForRemoval(rootPath)
isSetForRemoval(d, rootPath) ==
  existsSync(d, pathJoin(<<join(rootPath.segs, "/"), UNINSTALL_FLAG>>))

\* resolvePath(extensionId, versionString)
resolvePath(extensionId, versionString) == pathJoin(<<extensionId, versionString>>)

\* a comparator that settles equal versions by the greater revision
compareVersionsByRevision(a, b) ==
  IF semverGt(GetProp(a, "version").v, GetProp(b, "version").v) THEN -1
  ELSE IF semverGt(GetProp(b, "version").v, GetProp(a, "version").v) THEN 1
  ELSE IF compareText(GetProp(a, "revision").v, GetProp(b, "revision").v) > 0 THEN -1
  ELSE 1

\* the sort comparator of updateEntry
compareVersions(a, b) ==
  IF semverGt(GetProp(a, "version").v, GetProp(b, "version").v) THEN -1 ELSE 1

\* the element is put after the last of the positions it does not go before
InsertAfter(sorted, element, pos) ==
  SubSeq(sorted, 1, pos) \o <<element>> \o SubSeq(sorted, pos + 1, Len(sorted))

\* the last of a set of positions, 0 when there is none
LastOf(positions) ==
  IF positions = {} THEN 0 ELSE CHOOSE i \in positions : \A j \in positions : j <= i

\* one insertion of the insertion sort that Array.prototype.sort runs on a short array
InsertSorted(sorted, element) ==
  InsertAfter(sorted, element,
              LastOf({j \in 1..Len(sorted) : compareVersions(sorted[j], element) <= 0}))

RECURSIVE SortFrom(_, _)
SortFrom(sorted, rest) ==
  IF Len(rest) = 0 THEN sorted ELSE SortFrom(InsertSorted(sorted, rest[1]), Tail(rest))

\* Array.from(versions).sort(comparator)
sortVersions(versions) == SortFrom(<<>>, versions)

\* the removal of the whole extension root instead of one version
removeTargetRoot(info) == pathJoin(<<GetProp(info, "extensionId").v>>)

\* the argument of fs.remove in the upgrade loop: info.path
removeTarget(info) == GetProp(info, "path")

\* updateEntry with exactly one version
singleOutcome(versions) == [ret |-> versions[1], removes |-> <<>>, targets |-> <<>>]

\* every sorted version, the head too, goes to fs.remove with its directory
sortedOutcomeRemoveAll(sortedVersions) ==
  [ret |-> sortedVersions[1],
   removes |-> [i \in 1..Len(sortedVersions) |->
                  resolvePath(GetProp(sortedVersions[i], "extensionId").v,
                              GetProp(sortedVersions[i], "versionString").v)],
   targets |-> sortedVersions]

\* the head of the sorted versions is kept, the others (targets, the array
\* remove of the code) go to fs.remove
sortedOutcome(sortedVersions) ==
  [ret |-> sortedVersions[1],
   removes |-> [i \in 1..(Len(sortedVersions) - 1) |-> removeTarget(sortedVersions[i + 1])],
   targets |-> Tail(sortedVersions)]

\* updateEntry with several versions
upgradeOutcome(versions) == sortedOutcome(sortVersions(versions))

\* the outcome of updateEntry once the versions are listed
versionsOutcome(versions) ==
  IF Len(versions) > 1 THEN upgradeOutcome(versions)
  ELSE IF Len(versions) = 1 THEN singleOutcome(versions)
  ELSE [ret |-> Undefined, removes |-> <<>>, targets |-> <<>>]

\* the fs.remove calls of a sequence of arguments
removeOps(removes) == [i \in 1..Len(removes) |-> FsCall("remove", removes[i])]

\* the flag check of updateEntry
flagCheckOf(extensionId) == FsCall("existsSync", pathJoin(<<extensionId, UNINSTALL_FLAG>>))

\* the branch of updateEntry that removes the flagged root
removalBranch(rootPath, opsBefore) ==
  [threw |-> FALSE, flagged |-> TRUE, ret |-> Undefined, removes |-> <<rootPath>>,
   versions |-> <<>>, targets |-> <<>>, ops |-> opsBefore \o <<FsCall("remove", rootPath)>>]

\* the branch of updateEntry that ends in the TypeError of the scan
faultBranch(ops) ==
  [threw |-> TRUE, flagged |-> FALSE, ret |-> Undefined, removes |-> <<>>,
   versions |-> <<>>, targets |-> <<>>, ops |-> ops]

\* the removals issued ahead of the flag check and the scan
versionsBranchRemoveFirst(versions, out, opsBefore) ==
  [threw |-> FALSE, flagged |-> FALSE, ret |-> out.ret, removes |-> out.removes,
   versions |-> versions, targets |-> out.targets, ops |-> removeOps(out.removes) \o opsBefore]

\* the branch of updateEntry that returns what the versions decide
versionsBranch(versions, out, opsBefore) ==
  [threw |-> FALSE, flagged |-> FALSE, ret |-> out.ret, removes |-> out.removes,
   versions |-> versions, targets |-> out.targets, ops |-> opsBefore \o removeOps(out.removes)]

\* updateEntry with the versions listed before the flag is looked for
entryScanFirst(flagged, rootPath, flagCheck, listed) ==
  IF listed.threw THEN faultBranch(listed.ops)
  ELSE IF flagged THEN removalBranch(rootPath, listed.ops \o <<flagCheck>>)
  ELSE versionsBranch(listed.v, versionsOutcome(listed.v), listed.ops \o <<flagCheck>>)

updateEntryScanFirst(d, extensionId, order) ==
  entryScanFirst(isSetForRemoval(d, pathJoin(<<extensionId>>)), pathJoin(<<extensionId>>),
                 flagCheckOf(extensionId), listInstalledVersions(d, extensionId, order))

\* the body of updateEntry: flagged is what isSetForRemoval answers, listed
\* what listInstalledVersions gives when it is called
entryOutcome(flagged, rootPath, flagCheck, listed) ==
  IF flagged THEN removalBranch(rootPath, <<flagCheck>>)
  ELSE IF listed.threw THEN faultBranch(<<flagCheck>> \o listed.ops)
  ELSE versionsBranch(listed.v, versionsOutcome(listed.v), <<flagCheck>> \o listed.ops)

\* updateEntry(extensionId): what it returns, the fs calls it makes and the
\* arguments it hands to fs.remove
updateEntry(d, extensionId, order) ==
  entryOutcome(isSetForRemoval(d, pathJoin(<<extensionId>>)), pathJoin(<<extensionId>>),
               flagCheckOf(extensionId), listInstalledVersions(d, extensionId, order))

\* fs.remove(arg) starts a removal only when it is handed a path
removeStarts(arg) == arg.t = "string"

\* the paths whose removal a sequence of fs.remove calls starts
StartedRemovals(removes) ==
  {removes[i].segs : i \in {j \in 1..Len(removes) : removeStarts(removes[j])}}

(***************************************************************************)
(* Translated manifests                                                    *)
(***************************************************************************)
\* a value that || passes over
Falsy(v) ==
  \/ v.t \in {"undefined", "null"}
  \/ v.t = "string" /\ v.v = <<>>
  \/ v.t = "number" /\ v.v = 0

\* CRExtension._sanitizePathValue_(value): only the characters that are safe
\* in one path segment are kept; a value that is no string throws
sanitizePathValue(value) ==
  IF value.t # "string" THEN [threw |-> TRUE, v |-> Undefined]
  ELSE [threw |-> FALSE,
        v |-> Str(SelectSeq(value.v, LAMBDA c : IsIdentChar(c) \/ c = "_"))]

\* text is a placeholder __MSG_key__
IsPlaceholder(text) ==
  /\ Len(text) > 8
  /\ SubSeq(text, 1, 6) = <<"_", "_", "M", "S", "G", "_">>
  /\ SubSeq(text, Len(text) - 1, Len(text)) = <<"_", "_">>

PlaceholderKey(text) == SubSeq(text, 7, Len(text) - 2)

\* the message of a key in a bundle, or the placeholder itself
translateValue(messages, value) ==
  IF value.t = "string" /\ IsPlaceholder(value.v)
  THEN LET key == PlaceholderKey(value.v)
       IN IF /\ messages.t = "object"
             /\ key \in DOMAIN messages.props
             /\ GetProp(messages.props[key], "message").t = "string"
          THEN GetProp(messages.props[key], "message")
          ELSE value
  ELSE value

\* CRExtensionI18n.translatedManifest(messages, manifest)
translatedManifest(messages, manifest) ==
  IF manifest.t # "object" THEN manifest
  ELSE Obj([key \in DOMAIN manifest.props |-> translateValue(messages, manifest.props[key])])

EN == <<"e", "n">>

\* CRExtension._sanitizePathValue_(manifest.default_locale || 'en')
defaultLocaleOf(manifest) ==
  IF MemberThrows(manifest) THEN [threw |-> TRUE, v |-> Undefined]
  ELSE sanitizePathValue(IF Falsy(GetProp(manifest, "default_locale"))
                         THEN Str(EN)
                         ELSE GetProp(manifest, "default_locale"))

\* the nested try blocks of loadTranslatedManifest: the bundle and the reads made for it
selectMessages(d, rootPath, manifest, locale) ==
  LET root == join(rootPath.segs, "/")
      localePath == pathJoin(<<root, LOCALES_DIR, locale, MESSAGES_JSON>>)
      first == readJsonSync(d, localePath)
      defaultLocale == defaultLocaleOf(manifest)
      defaultPath == pathJoin(<<root, LOCALES_DIR, defaultLocale.v.v, MESSAGES_JSON>>)
      second == readJsonSync(d, defaultPath)
  IN IF ~first.threw
     THEN [messages |-> first.v, ops |-> <<FsCall("readJsonSync", localePath)>>]
     ELSE IF defaultLocale.threw
     THEN [messages |-> EmptyObject, ops |-> <<FsCall("readJsonSync", localePath)>>]
     ELSE IF second.threw
     THEN [messages |-> EmptyObject,
           ops |-> <<FsCall("readJsonSync", localePath), FsCall("readJsonSync", defaultPath)>>]
     ELSE [messages |-> second.v,
           ops |-> <<FsCall("readJsonSync", localePath), FsCall("readJsonSync", defaultPath)>>]

\* loadTranslatedManifest(extensionId, versionString, locale)
loadTranslatedManifest(d, extensionId, versionString, locale) ==
  LET rootPath == pathJoin(<<extensionId, versionString>>)
      manifestPath == pathJoin(<<join(rootPath.segs, "/"), MANIFEST_JSON>>)
      manifest == readJsonSync(d, manifestPath)
      selected == selectMessages(d, rootPath, manifest.v, locale)
  IN IF manifest.threw
     THEN [threw |-> TRUE, ret |-> Undefined, messages |-> Undefined,
           versionString |-> versionString, locale |-> locale,
           ops |-> <<FsCall("readJsonSync", manifestPath)>>]
     ELSE [threw |-> FALSE, ret |-> translatedManifest(selected.messages, manifest.v),
           messages |-> selected.messages,
           versionString |-> versionString, locale |-> locale,
           ops |-> <<FsCall("readJsonSync", manifestPath)>> \o selected.ops]

(***************************************************************************)
(* State                                                                   *)
(***************************************************************************)
VARIABLES
  disk,   \* the directory tree under the install root, by extension id
  jobs,   \* the paths whose asynchronous fs.remove is in flight
  call,   \* the call of CRExtensionFS that has just returned, if any
  prev    \* the call before it, where the caller keeps its outcome

vars == <<disk, jobs, call, prev>>

NoCall == [op |-> "none"]
\* the call op(id) has returned (or thrown) with the outcome r; before is the
\* disk as the call found it
Returned(op, id, r) == [op |-> op, id |-> id, r |-> r, before |-> disk]

\* the version directories an installer can put on the disk
Package(id, name, manifest) == [id |-> id, name |-> name, manifest |-> manifest]
Doc(id, version) == ManifestDoc(Str(id), Str(version), Undefined)

Packages ==
  { Package(ext1, D_1_0_0_r1, Doc(ext1, V_1_0_0)),
    Package(ext1, D_1_0_0_r1, Doc(ext1, V_1_0)),
    Package(ext1, D_1_0_0_r1, Json(Null)),
    Package(ext1, D_1_1_0_r1, Doc(ext1, V_1_1_0)),
    Package(ext1, D_1_1_0_r1, NoFile),
    Package(ext1, D_1_1_0_r2, Doc(ext1, V_1_1_0)),
    Package(ext1, D_2_0_0_abc, Doc(ext1, V_1_9_9)),
    Package(ext1, D_2_0_0_abc, Doc(ext2, V_2_0_0)),
    Package(ext1, D_v1_2_0_a_b, Doc(ext1, V_1_2_0)),
    Package(ext1, D_v1_2_0_a_b, Doc(ext1, V_v1_2_0)),
    Package(ext1, D_1_10_0_r1, Doc(ext1, V_1_10_0)),
    Package(ext1, D_1_1_0_beta, Doc(ext1, V_1_1_0_beta)),
    Package(ext1, D_not_a_version, NotJson),
    Package(ext2, D_1_0_0_r1, Doc(ext2, V_1_0_0)) }

DirCount(d) ==
  Cardinality({<<id, n>> \in ExtensionIds \X {p.name : p \in Packages} : DirExists(d, id, n)})

\* f with the key k added, bound to v
Extend(f, k, v) == [x \in DOMAIN f \cup {k} |-> IF x = k THEN v ELSE f[x]]
\* f without the key k
Without(f, k) == [x \in DOMAIN f \ {k} |-> f[x]]

Init ==
  /\ disk = [id \in ExtensionIds |-> NoRoot]
  /\ jobs = {}
  /\ call = NoCall
  /\ prev = NoCall

(***************************************************************************)
(* The installer, outside this module                                      *)
(***************************************************************************)
\* an extension root is created
MakeRoot(id) ==
  /\ call = NoCall
  /\ ~RootExists(disk, id)
  /\ disk' = [disk EXCEPT ![id] = [exists |-> TRUE, flag |-> FALSE, dirs |-> NoDirs]]
  /\ call' = NoCall
  /\ UNCHANGED <<jobs, prev>>

\* a version directory is put under its extension root
Install(p) ==
  /\ call = NoCall
  /\ DirCount(disk) < MaxDirs
  /\ ~DirExists(disk, p.id, p.name)
  /\ disk' = [disk EXCEPT ![p.id] =
                [exists |-> TRUE,
                 flag |-> disk[p.id].flag,
                 dirs |-> Extend(disk[p.id].dirs, p.name, VersionDir(p.manifest, NoLocales))]]
  /\ call' = NoCall
  /\ UNCHANGED <<jobs, prev>>

(***************************************************************************)
(* The calls of CRExtensionFS                                              *)
(***************************************************************************)
\* fs.writeFileSync(path, data) of a flag file: it throws when the directory
\* of the file is missing (ENOENT) or when the file system refuses to open the
\* file (ok is FALSE), and makes no directory
writeFileSync(d, path, ok) ==
  IF /\ Len(path.segs) = 2 /\ path.segs[2] = UNINSTALL_FLAG
     /\ RootExists(d, path.segs[1]) /\ ok
  THEN [threw |-> FALSE, disk |-> [d EXCEPT ![path.segs[1]].flag = TRUE]]
  ELSE [threw |-> TRUE, disk |-> d]

\* the flag written with the directories above it made first
setForRemovalMkdir(d, extensionId, ok) ==
  IF ok /\ extensionId \in DOMAIN d
  THEN [threw |-> FALSE,
        disk |-> [d EXCEPT ![extensionId] =
                    [exists |-> TRUE, flag |-> TRUE, dirs |-> d[extensionId].dirs]]]
  ELSE [threw |-> TRUE, disk |-> d]

\* setForRemoval(extensionId)
setForRemoval(d, extensionId, ok) ==
  writeFileSync(d, pathJoin(<<extensionId, UNINSTALL_FLAG>>), ok)

\* setForRemoval(extensionId): what writeFileSync throws reaches the caller
SetForRemoval(id) ==
  /\ call = NoCall
  /\ \E ok \in BOOLEAN :
       LET r == setForRemoval(disk, id, ok)
       IN /\ disk' = r.disk
          /\ call' = Returned("setForRemoval", id, [threw |-> r.threw])
  /\ UNCHANGED <<jobs, prev>>

\* listInstalledVersions(extensionId)
ListInstalledVersions(id) ==
  /\ call = NoCall
  /\ \E order \in Listings(Children(disk, id)) :
    LET r == listInstalledVersions(disk, id, order)
    IN /\ call' = Returned("listInstalledVersions", id, r)
       /\ UNCHANGED <<disk, jobs, prev>>

\* updateEntry(extensionId): every fs.remove it starts goes on after it returns
UpdateEntry(id) ==
  /\ call = NoCall
  /\ \E order \in Listings(Children(disk, id)) :
    LET r == updateEntry(disk, id, order)
    IN /\ call' = Returned("updateEntry", id, r)
       /\ jobs' = jobs \cup StartedRemovals(r.removes)
       /\ UNCHANGED <<disk, prev>>

(***************************************************************************)
(* fs.remove in flight                                                     *)
(***************************************************************************)
\* the removal of a path goes one step on: one child of a directory is
\* removed, or the emptied directory itself
RemoveEffect(p) ==
  IF Len(p) = 1 /\ RootExists(disk, p[1])
  THEN IF Children(disk, p[1]) = {}
       THEN /\ disk' = [disk EXCEPT ![p[1]] = NoRoot]
            /\ jobs' = jobs \ {p}
       ELSE /\ \E c \in Children(disk, p[1]) :
                 disk' = [disk EXCEPT ![p[1]] =
                            IF c = UNINSTALL_FLAG
                            THEN [disk[p[1]] EXCEPT !.flag = FALSE]
                            ELSE [disk[p[1]] EXCEPT !.dirs = Without(disk[p[1]].dirs, c)]]
            /\ jobs' = jobs
  ELSE IF Len(p) = 2 /\ DirExists(disk, p[1], p[2])
  THEN /\ disk' = [disk EXCEPT ![p[1]].dirs = Without(disk[p[1]].dirs, p[2])]
       /\ jobs' = jobs \ {p}
  ELSE /\ disk' = disk
       /\ jobs' = jobs \ {p}

\* a step of a removal between two calls
RemoveStep(p) ==
  /\ call = NoCall
  /\ p \in jobs
  /\ call' = NoCall
  /\ UNCHANGED prev
  /\ RemoveEffect(p)

\* the removal fails (the file system refuses it) and is given up
RemoveFail(p) ==
  /\ call = NoCall
  /\ p \in jobs
  /\ jobs' = jobs \ {p}
  /\ call' = NoCall
  /\ UNCHANGED <<disk, prev>>

\* the caller takes the result of the call that has returned
Resume ==
  /\ call # NoCall
  /\ call' = NoCall
  /\ UNCHANGED <<disk, jobs, prev>>

Next ==
  \/ Resume
  \/ \E id \in ExtensionIds : MakeRoot(id)
  \/ \E p \in Packages : Install(p)
  \/ \E id \in ExtensionIds : SetForRemoval(id)
  \/ \E id \in ExtensionIds : ListInstalledVersions(id)
  \/ \E id \in ExtensionIds : UpdateEntry(id)
  \/ \E p \in jobs : RemoveStep(p)
  \/ \E p \in jobs : RemoveFail(p)

Spec == Init /\ [][Next]_vars

(***************************************************************************)
(* Translated manifests of one installed version                           *)
(***************************************************************************)
FR == <<"f", "r">>
DE == <<"d", "e">>
FR_UNSAFE == <<".", ".", "/", "f", "r">>
LocaleNames == {EN, FR, DE}

\* the manifest.json files of the installed version
I18nManifests ==
  { NoFile, NotJson, Json(Null),
    ManifestDoc(Str(ext1), Str(V_1_0_0), Undefined),
    ManifestDoc(Str(ext1), Str(V_1_0_0), Str(<<>>)),
    ManifestDoc(Str(ext1), Str(V_1_0_0), Str(FR)),
    ManifestDoc(Str(ext1), Str(V_1_0_0), Str(FR_UNSAFE)) }

\* the messages.json of a locale, when it is there
I18nBundles(l) == {NotJson, MessagesDoc(<<"A", "p", "p", " ">> \o l)}

\* the _locales directories of the installed version
I18nLocales ==
  UNION {{f \in [S -> {NotJson} \cup UNION {I18nBundles(l) : l \in S}] :
            \A l \in S : f[l] \in I18nBundles(l)} : S \in SUBSET LocaleNames}

InitManifest ==
  /\ \E m \in I18nManifests, locales \in I18nLocales :
       disk = [id \in ExtensionIds |->
                 IF id = ext1
                 THEN [exists |-> TRUE, flag |-> FALSE,
                       dirs |-> Extend(NoDirs, D_1_0_0_r1, VersionDir(m, locales))]
                 ELSE NoRoot]
  /\ jobs = {}
  /\ call = NoCall
  /\ prev = NoCall

\* loadTranslatedManifest(extensionId, versionString, locale)
LoadTranslatedManifest(id, versionString, locale) ==
  /\ call = NoCall
  /\ call' = Returned("loadTranslatedManifest", id,
                      loadTranslatedManifest(disk, id, versionString, locale))
  /\ UNCHANGED <<disk, jobs, prev>>

NextManifest ==
  \/ Resume
  \/ \E id \in ExtensionIds, locale \in LocaleNames :
       LoadTranslatedManifest(id, D_1_0_0_r1, locale)

SpecManifest == InitManifest /\ [][NextManifest]_vars

(***************************************************************************)
(* The read path: discovery and manifests, on a disk that is not written   *)
(***************************************************************************)
MaxReadDirs == 2

\* a manifest.json that is there and cannot be read (EACCES)
Unreadable == [k |-> "unreadable"]

\* arguments that are not plain names
PARENT == <<".", ".">>
UP_TO_EXT2 == <<".", ".", "/", "e", "x", "t", "2", "/">> \o D_1_0_0_r1
UP_AND_OUT == <<".", ".", "/", ".", ".", "/", "e", "t", "c">>
ABSOLUTE == <<"/">> \o D_1_0_0_r1
ReadIds == ExtensionIds \cup {PARENT}
ReadVersionStrings == {D_1_0_0_r1, D_1_1_0_r1, UP_TO_EXT2, UP_AND_OUT, ABSOLUTE}

\* readManifest(extensionId, versionString) with the fs calls it makes
readManifestCall(d, extensionId, versionString) ==
  [threw |-> FALSE,
   ret |-> readManifest(d, extensionId, versionString),
   versionString |-> versionString,
   ops |-> <<FsCall("readJsonSync", pathJoin(<<extensionId, versionString, MANIFEST_JSON>>))>>]

\* resolvePath(extensionId, versionString) as a call: it touches no file
resolvePathCall(extensionId, versionString) ==
  [threw |-> FALSE, ret |-> resolvePath(extensionId, versionString),
   versionString |-> versionString, ops |-> <<>>]

\* isSetForRemoval(rootPath) for the root of an extension id
isSetForRemovalCall(d, extensionId) ==
  [threw |-> FALSE, ret |-> isSetForRemoval(d, pathJoin(<<extensionId>>)),
   ops |-> <<FsCall("existsSync", pathJoin(<<extensionId, UNINSTALL_FLAG>>))>>]

\* fs.readdirSync(CHROME_EXTENSION_INSTALL_PATH)
readInstallPath(present, order) ==
  IF present THEN [threw |-> FALSE, v |-> order] ELSE [threw |-> TRUE, v |-> <<>>]

\* listInstalledExtensionIds()
listInstalledExtensionIds(present, order) ==
  [threw |-> FALSE, ret |-> OrEmptyListing(readInstallPath(present, order)),
   ops |-> <<FsCall("readdirSync", pathJoin(<<>>))>>]

\* the extension roots on the disk
Roots(d) == {id \in ExtensionIds : RootExists(d, id)}

\* the manifests the read path can find, beside those of Packages
ReadPackages ==
  Packages \cup
  { Package(ext1, D_1_1_0_r1, Unreadable),
    Package(ext1, D_1_0_0_r1, Json(Num(7))),
    Package(ext1, D_1_1_0_r2, Json(Str(V_1_1_0))),
    Package(ext1, D_3_0_0, Doc(ext1, V_3_0_0)) }

\* the sets of at most n version directories with different paths
RECURSIVE PackageSets(_, _)
PackageSets(P, n) ==
  IF n = 0 THEN {{}}
  ELSE PackageSets(P, n - 1) \cup
       {T \cup {p} : <<T, p>> \in
          {x \in PackageSets(P, n - 1) \X P :
             \A q \in x[1] : q.id # x[2].id \/ q.name # x[2].name}}

\* the disk with the version directories S under the roots, flagged or not
DiskWith(S, roots, flags) ==
  [id \in ExtensionIds |->
     IF id \in roots
     THEN [exists |-> TRUE, flag |-> id \in flags,
           dirs |-> [n \in {p.name : p \in {q \in S : q.id = id}} |->
                       VersionDir((CHOOSE p \in S : p.id = id /\ p.name = n).manifest,
                                  NoLocales)]]
     ELSE NoRoot]

InitRead ==
  /\ \E S \in PackageSets(ReadPackages, MaxReadDirs), roots \in SUBSET ExtensionIds, flags \in SUBSET ExtensionIds :
       /\ {p.id : p \in S} \subseteq roots
       /\ flags \subseteq roots
       /\ disk = DiskWith(S, roots, flags)
  /\ jobs = {}
  /\ call = NoCall
  /\ prev = NoCall

\* readManifest(extensionId, versionString)
ReadManifest(id, versionString) ==
  /\ call = NoCall
  /\ call' = Returned("readManifest", id, readManifestCall(disk, id, versionString))
  /\ UNCHANGED <<disk, jobs, prev>>

\* resolvePath(extensionId, versionString)
ResolvePath(id, versionString) ==
  /\ call = NoCall
  /\ call' = Returned("resolvePath", id, resolvePathCall(id, versionString))
  /\ UNCHANGED <<disk, jobs, prev>>

\* isSetForRemoval(rootPath)
IsSetForRemoval(id) ==
  /\ call = NoCall
  /\ call' = Returned("isSetForRemoval", id, isSetForRemovalCall(disk, id))
  /\ UNCHANGED <<disk, jobs, prev>>

\* listInstalledExtensionIds(): the install path is there when a root is
ListInstalledExtensionIds ==
  /\ call = NoCall
  /\ \E present \in {TRUE} \cup {Roots(disk) # {}}, order \in Listings(Roots(disk)) :
       call' = Returned("listInstalledExtensionIds", <<>>,
                        listInstalledExtensionIds(present, order))
  /\ UNCHANGED <<disk, jobs, prev>>

NextRead ==
  \/ Resume
  \/ \E id \in ReadIds, versionString \in ReadVersionStrings : ReadManifest(id, versionString)
  \/ \E id \in ReadIds, versionString \in ReadVersionStrings : ResolvePath(id, versionString)
  \/ \E id \in ExtensionIds : IsSetForRemoval(id)
  \/ \E id \in ExtensionIds : ListInstalledVersions(id)
  \/ ListInstalledExtensionIds

SpecRead == InitRead /\ [][NextRead]_vars

(***************************************************************************)
(* updateEntry called again and again, nothing else writing to the disk    *)
(***************************************************************************)
MaxRepeatDirs == 2

\* version directories of which no two have the same version
RepeatPackages == {p \in Packages : p.name # D_1_1_0_r2}

InitRepeat ==
  /\ \E S \in PackageSets(RepeatPackages, MaxRepeatDirs),
        roots \in SUBSET ExtensionIds, flags \in SUBSET ExtensionIds :
       /\ {p.id : p \in S} \subseteq roots
       /\ flags \subseteq roots
       /\ disk = DiskWith(S, roots, flags)
  /\ jobs = {}
  /\ call = NoCall
  /\ prev = NoCall

\* the caller takes the result of the call that has returned and keeps it
KeepOutcome ==
  /\ call # NoCall
  /\ prev' = call
  /\ call' = NoCall
  /\ UNCHANGED <<disk, jobs>>

NextRepeat ==
  \/ KeepOutcome
  \/ \E id \in ExtensionIds : UpdateEntry(id)
  \/ \E p \in jobs : RemoveStep(p)
  \/ \E p \in jobs : RemoveFail(p)

\* the caller takes every outcome, a removal in flight goes on, and the caller
\* goes on calling updateEntry of every id: updateEntry can be called whenever
\* no call is pending, so that it returns again and again
SpecRepeat ==
  /\ InitRepeat
  /\ [][NextRepeat]_vars
  /\ WF_vars(KeepOutcome)
  /\ WF_vars(\E p \in jobs : RemoveStep(p))
  /\ \A id \in ExtensionIds : []<>(call.op = "updateEntry" /\ call.id = id)

(***************************************************************************)
(* What the package layout says, independently of the code above           *)
(***************************************************************************)
\* the canonical semantic version a directory name stands for (<<>>: none)
ExpectedVersion(name) ==
  CASE name = D_1_0_0_r1 -> V_1_0_0
    [] name = D_1_1_0_r1 -> V_1_1_0
    [] name = D_1_1_0_r2 -> V_1_1_0
    [] name = D_2_0_0_abc -> V_2_0_0
    [] name = D_v1_2_0_a_b -> V_1_2_0
    [] name = D_1_10_0_r1 -> V_1_10_0
    [] name = D_3_0_0 -> V_3_0_0
    [] name = D_1_1_0_beta -> V_1_1_0_beta
    [] OTHER -> <<>>

\* semver precedence of the versions that occur:
\* 1.0.0 < 1.1.0-beta.2 < 1.1.0 < 1.2.0 < 1.10.0 < 2.0.0 < 3.0.0
PrecedenceOrder == <<V_1_0_0, V_1_1_0_beta, V_1_1_0, V_1_2_0, V_1_10_0, V_2_0_0, V_3_0_0>>
Precedence(v) == CHOOSE i \in 1..Len(PrecedenceOrder) : PrecedenceOrder[i] = v

\* the directory name parses and its manifest declares the id and version of its path
ValidDir(d, id, name) ==
  /\ DirExists(d, id, name)
  /\ ExpectedVersion(name) # <<>>
  /\ LET m == d[id].dirs[name].manifest
     IN /\ m.k = "json"
        /\ m.v.t = "object"
        /\ m.v.props.wavebox_extension_id = Str(id)
        /\ m.v.props.version = Str(ExpectedVersion(name))

ValidDirs(d, id) == {name \in DOMAIN d[id].dirs : ValidDir(d, id, name)}
InvalidDirs(d, id) == DOMAIN d[id].dirs \ ValidDirs(d, id)

DistinctVersions(names) ==
  \A m, n \in names : ExpectedVersion(m) = ExpectedVersion(n) => m = n

\* the valid directory of greatest precedence
IsGreatest(d, id, name) ==
  /\ name \in ValidDirs(d, id)
  /\ \A n \in ValidDirs(d, id) : Precedence(ExpectedVersion(n)) <= Precedence(ExpectedVersion(name))

\* updateEntry(id) has just returned or thrown
AtUpdateEntry == call.op = "updateEntry"
\* the directory name in the VersionInfo a call returned
ReturnedName == GetProp(call.r.ret, "versionString").v
ReturnsVersion == ~call.r.threw /\ call.r.ret.t = "object"

(***************************************************************************)
(* One updateEntry taken fs call by fs call, an installer and the removals *)
(* in flight running beside it                                             *)
(***************************************************************************)
MaxScanDirs == 3

\* the version directories the installer brings under ext1
ScanPackages ==
  { Package(ext1, D_1_0_0_r1, Doc(ext1, V_1_0_0)),
    Package(ext1, D_1_0_0_r1, Json(Null)),
    Package(ext1, D_1_1_0_r1, Doc(ext1, V_1_1_0)),
    Package(ext1, D_1_10_0_r1, Doc(ext1, V_1_10_0)),
    Package(ext1, D_2_0_0_abc, Doc(ext2, V_2_0_0)) }

\* updateEntry(id) has found no flag and has listed the root: listed is what
\* readdirSync gave, infos what the map and the first filter made of it,
\* kept the infos the manifest filter has let through so far; validAtScan
\* remembers the directories that were valid when their manifest was read
Scanning(id, listed, infos) ==
  [op |-> "scanning", id |-> id, listed |-> listed, infos |-> infos, kept |-> <<>>,
   ops |-> <<flagCheckOf(id), FsCall("readdirSync", pathJoin(<<id>>))>>,
   validAtScan |-> {}]

\* updateEntry(id) has returned (or thrown) with the outcome r; handedOver
\* is what the root held when the call handed it to fs.remove
ReturnedFrom(id, r, listed, validAtScan) ==
  [op |-> "updateEntry", id |-> id, r |-> r, listed |-> listed,
   validAtScan |-> validAtScan,
   handedOver |-> IF r.flagged THEN DOMAIN disk[id].dirs ELSE {}]

\* the entry whose manifest the filter reads next
NextInfo == call.infos[Len(call.ops) - 1]

\* the scanning call once the manifest m of info is read
AfterManifest(m, info, read) ==
  IF MemberThrows(m)
  THEN ReturnedFrom(call.id, faultBranch(Append(call.ops, read)), call.listed, call.validAtScan)
  ELSE [call EXCEPT
          !.ops = Append(@, read),
          !.kept = IF manifestMatches(m, info) THEN Append(@, info) ELSE @,
          !.validAtScan =
             IF ValidDir(disk, call.id, GetProp(info, "versionString").v)
             THEN @ \cup {GetProp(info, "versionString").v} ELSE @]

InitScan ==
  /\ \E flags \in SUBSET {ext1} : disk = DiskWith({}, {ext1}, flags)
  /\ jobs = {}
  /\ call = NoCall
  /\ prev = NoCall

\* updateEntry(id) up to the listing of the root: a flagged root is handed to
\* fs.remove and the call returns
BeginUpdateEntry(id) ==
  /\ call = NoCall
  /\ IF isSetForRemoval(disk, pathJoin(<<id>>))
     THEN /\ call' = ReturnedFrom(id, removalBranch(pathJoin(<<id>>), <<flagCheckOf(id)>>),
                                  <<>>, {})
          /\ jobs' = jobs \cup {<<id>>}
     ELSE /\ \E order \in Listings(Children(disk, id)) :
               call' = Scanning(id, OrEmptyListing(readdirSync(disk, pathJoin(<<id>>), order)),
                                parseListing(id, OrEmptyListing(readdirSync(disk, pathJoin(<<id>>), order))))
          /\ jobs' = jobs
  /\ UNCHANGED <<disk, prev>>

\* the manifest filter reads the manifest of its next entry
ScanStep ==
  /\ call.op = "scanning"
  /\ Len(call.ops) - 1 <= Len(call.infos)
  /\ call' = AfterManifest(manifestOf(disk, NextInfo), NextInfo,
                           FsCall("readJsonSync", manifestPathOf(NextInfo)))
  /\ UNCHANGED <<disk, jobs, prev>>

\* the fresh listing taken again when the versions decide
FinishUpdateEntryRescan ==
  /\ call.op = "scanning"
  /\ Len(call.ops) - 1 > Len(call.infos)
  /\ \E order \in Listings(Children(disk, call.id)) :
       /\ ~listInstalledVersions(disk, call.id, order).threw
       /\ call' = ReturnedFrom(call.id,
                               versionsBranch(listInstalledVersions(disk, call.id, order).v,
                                              versionsOutcome(listInstalledVersions(disk, call.id, order).v),
                                              call.ops),
                               call.listed, call.validAtScan)
  /\ jobs' = jobs
  /\ UNCHANGED <<disk, prev>>

\* a directory whose manifest the installer has not finished
Unfinished(d, id, name) == d[id].dirs[name].manifest \in {NoFile, NotJson}

\* the scan is over: the versions decide, the removals are issued and the
\* call returns
FinishUpdateEntry ==
  /\ call.op = "scanning"
  /\ Len(call.ops) - 1 > Len(call.infos)
  /\ call' = ReturnedFrom(call.id,
                          versionsBranch(call.kept, versionsOutcome(call.kept), call.ops),
                          call.listed, call.validAtScan)
  /\ jobs' = jobs \cup StartedRemovals(versionsOutcome(call.kept).removes)
  /\ UNCHANGED <<disk, prev>>

\* the caller takes the outcome of the call that has returned
TakeOutcome ==
  /\ call.op = "updateEntry"
  /\ call' = NoCall
  /\ UNCHANGED <<disk, jobs, prev>>

\* the installer, one version at a time, makes the directory of a version;
\* its manifest is not written yet
InstallerMakesDir(p) ==
  /\ DirCount(disk) < MaxScanDirs
  /\ \A n \in DOMAIN disk[p.id].dirs : ~Unfinished(disk, p.id, n)
  /\ ~DirExists(disk, p.id, p.name)
  /\ disk' = [disk EXCEPT ![p.id] =
                [exists |-> TRUE,
                 flag |-> disk[p.id].flag,
                 dirs |-> Extend(disk[p.id].dirs, p.name, VersionDir(NoFile, NoLocales))]]
  /\ UNCHANGED <<jobs, call, prev>>

\* the installer writes the manifest of a directory it has made, in part or
\* to the end
InstallerWrites(p) ==
  /\ DirExists(disk, p.id, p.name)
  /\ Unfinished(disk, p.id, p.name)
  /\ \E m \in {NotJson, p.manifest} \ {disk[p.id].dirs[p.name].manifest} :
       disk' = [disk EXCEPT ![p.id].dirs[p.name].manifest = m]
  /\ UNCHANGED <<jobs, call, prev>>

\* a removal in flight goes one step on, whatever the caller is doing
RemovalGoesOn(p) ==
  /\ p \in jobs
  /\ RemoveEffect(p)
  /\ UNCHANGED <<call, prev>>

\* a removal in flight fails and is given up
RemovalFails(p) ==
  /\ p \in jobs
  /\ jobs' = jobs \ {p}
  /\ UNCHANGED <<disk, call, prev>>

NextScan ==
  \/ \E id \in ExtensionIds : BeginUpdateEntry(id)
  \/ ScanStep
  \/ FinishUpdateEntry
  \/ TakeOutcome
  \/ \E p \in ScanPackages : InstallerMakesDir(p)
  \/ \E p \in ScanPackages : InstallerWrites(p)
  \/ \E p \in jobs : RemovalGoesOn(p)
  \/ \E p \in jobs : RemovalFails(p)

SpecScan == InitScan /\ [][NextScan]_vars

(***************************************************************************)
(* Claims                                                                  *)
(***************************************************************************)
\* C1: when updateEntry is called on an extension whose root holds the
\* __uninstall__ sentinel, it returns nothing (the Removed outcome) and at the
\* moment it returns the extension root no longer exists.
C1_FlaggedRootGoneAtReturn ==
  (AtUpdateEntry /\ call.before[call.id].flag) =>
    /\ ~call.r.threw
    /\ call.r.ret = Undefined
    /\ ~RootExists(disk, call.id)

\* C2: with no sentinel and more than one valid version directory, all of
\* distinct semantic versions, the version updateEntry returns is the valid
\* one of greatest semver precedence.
C2_ReturnsGreatestVersion ==
  (/\ AtUpdateEntry
   /\ ~call.before[call.id].flag
   /\ Cardinality(ValidDirs(call.before, call.id)) > 1
   /\ DistinctVersions(ValidDirs(call.before, call.id))
   /\ ~call.r.threw) =>
    /\ call.r.ret.t = "object"
    /\ IsGreatest(call.before, call.id, ReturnedName)
    /\ GetProp(call.r.ret, "version") = Str(ExpectedVersion(ReturnedName))

\* C2 witness: an upgrade among three valid versions, 1.10.0 against 1.2.0 and
\* a prerelease among them, has returned
C2_Witness ==
  /\ AtUpdateEntry
  /\ ~call.r.threw
  /\ ~call.before[call.id].flag
  /\ ValidDirs(call.before, call.id) = {D_1_10_0_r1, D_v1_2_0_a_b, D_1_1_0_beta}
  /\ ReturnedName = D_1_10_0_r1

\* C3: with no sentinel and more than one valid version directory, once
\* updateEntry has returned every valid version directory but the survivor
\* is deleted, so that exactly one remains.
C3_SupersededDeleted ==
  (/\ AtUpdateEntry
   /\ ~call.before[call.id].flag
   /\ Cardinality(ValidDirs(call.before, call.id)) > 1
   /\ ReturnsVersion) =>
    /\ \A n \in ValidDirs(call.before, call.id) \ {ReturnedName} : ~DirExists(disk, call.id, n)
    /\ Cardinality(ValidDirs(disk, call.id)) = 1

\* C4: with no sentinel and exactly one valid version directory, updateEntry
\* returns that version and changes nothing on the disk.
C4_SingleVersionUnchanged ==
  (/\ AtUpdateEntry
   /\ ~call.before[call.id].flag
   /\ Cardinality(ValidDirs(call.before, call.id)) = 1) =>
    /\ ReturnsVersion
    /\ ReturnedName \in ValidDirs(call.before, call.id)
    /\ disk = call.before
    /\ StartedRemovals(call.r.removes) = {}

\* C5: when the sentinel is present updateEntry lists no directory and reads
\* no manifest before it returns.
C5_FlaggedNeverScans ==
  (AtUpdateEntry /\ call.before[call.id].flag) =>
    \A i \in 1..Len(call.r.ops) : call.r.ops[i].op \notin {"readdirSync", "readJsonSync"}

\* C5 witness: a flagged extension with version directories has been reconciled
C5_Witness ==
  /\ AtUpdateEntry
  /\ call.before[call.id].flag
  /\ ValidDirs(call.before, call.id) # {}
  /\ InvalidDirs(call.before, call.id) # {}

\* C6: updateEntry of an unflagged extension, an upgrade included, neither
\* deletes nor changes a subdirectory that is not a valid candidate, and
\* starts no removal that would.
C6_InvalidDirsUntouched ==
  (AtUpdateEntry /\ ~call.before[call.id].flag) =>
    \A n \in InvalidDirs(call.before, call.id) :
      /\ DirExists(disk, call.id, n)
      /\ disk[call.id].dirs[n] = call.before[call.id].dirs[n]
      /\ \A p \in StartedRemovals(call.r.removes) : p # <<call.id>> /\ p # <<call.id, n>>

\* C6 witness: an upgrade has returned next to a directory that does not parse
C6_Witness ==
  /\ AtUpdateEntry
  /\ ~call.before[call.id].flag
  /\ ReturnsVersion
  /\ Cardinality(ValidDirs(call.before, call.id)) > 1
  /\ D_not_a_version \in InvalidDirs(call.before, call.id)

\* C7: listInstalledVersions returns exactly the subdirectories whose name
\* parses as a semantic version before the first underscore and whose manifest
\* declares this extension id and exactly the canonical version.
C7_ListsExactlyValidDirs ==
  call.op = "listInstalledVersions" =>
    /\ ~call.r.threw
    /\ {GetProp(call.r.v[i], "versionString").v : i \in 1..Len(call.r.v)} = ValidDirs(call.before, call.id)
    /\ Len(call.r.v) = Cardinality(ValidDirs(call.before, call.id))

\* C8: with no sentinel and no valid version directory, a missing root
\* included, updateEntry returns nothing (Absent) without a fault and without
\* changing the disk.
C8_AbsentWithoutFault ==
  (/\ AtUpdateEntry
   /\ ~call.before[call.id].flag
   /\ ValidDirs(call.before, call.id) = {}) =>
    /\ ~call.r.threw
    /\ call.r.ret = Undefined
    /\ disk = call.before
    /\ StartedRemovals(call.r.removes) = {}

\* the bundle of a locale can be read
ReadableBundle(d, id, versionString, locale) ==
  /\ DirExists(d, id, versionString)
  /\ locale \in DOMAIN d[id].dirs[versionString].locales
  /\ d[id].dirs[versionString].locales[locale].k = "json"

\* the locale a manifest file falls back to: its default_locale made a safe
\* path segment, en when it declares none
DeclaredDefault(file) ==
  IF file.k = "json" /\ file.v.t = "object" /\ file.v.props.default_locale = Str(FR) THEN FR
  ELSE IF file.k = "json" /\ file.v.t = "object" /\ file.v.props.default_locale = Str(FR_UNSAFE) THEN FR
  ELSE EN

\* the bundle the fallback order gives
ExpectedMessages(d, id, versionString, locale) ==
  LET def == DeclaredDefault(d[id].dirs[versionString].manifest)
  IN IF ReadableBundle(d, id, versionString, locale)
     THEN d[id].dirs[versionString].locales[locale].v
     ELSE IF ReadableBundle(d, id, versionString, def)
     THEN d[id].dirs[versionString].locales[def].v
     ELSE EmptyObject

AtLoadTranslatedManifest == call.op = "loadTranslatedManifest"

\* C9: loadTranslatedManifest never fails outward, whatever is missing or
\* malformed among the manifest, the requested bundle and the default bundle.
C9_NeverFailsOutward ==
  AtLoadTranslatedManifest => ~call.r.threw

\* C10: once the manifest is read, the bundle is the requested locale's if it
\* can be read, else the one of the manifest's default_locale (en when it
\* declares none), else the empty bundle; a later one only when every earlier
\* one failed to load.
C10_FallbackOrder ==
  (/\ AtLoadTranslatedManifest
   /\ DirExists(call.before, call.id, call.r.versionString)
   /\ call.before[call.id].dirs[call.r.versionString].manifest.k = "json") =>
    call.r.messages = ExpectedMessages(call.before, call.id, call.r.versionString, call.r.locale)

\* the manifest.json of a version directory named by plain arguments
ManifestFileOf(d, id, name) ==
  IF id \in ExtensionIds /\ DirExists(d, id, name) THEN d[id].dirs[name].manifest ELSE NoFile

PlainArguments == call.id \in ExtensionIds /\ call.r.versionString \in {D_1_0_0_r1, D_1_1_0_r1}

\* C11: readManifest never throws and changes nothing on the disk: its only
\* fs call is the read, it returns the parsed document of a manifest that is
\* JSON, and the empty document when the file is missing, unreadable or
\* malformed.
C11_ReadManifestTotal ==
  call.op = "readManifest" =>
    /\ ~call.r.threw
    /\ disk = call.before
    /\ \A i \in 1..Len(call.r.ops) : call.r.ops[i].op = "readJsonSync"
    /\ PlainArguments =>
         IF ManifestFileOf(call.before, call.id, call.r.versionString).k = "json"
         THEN call.r.ret = ManifestFileOf(call.before, call.id, call.r.versionString).v
         ELSE call.r.ret = EmptyObject

\* readManifest has returned for a manifest that is there and is not JSON
C11_Witness ==
  /\ call.op = "readManifest"
  /\ PlainArguments
  /\ ManifestFileOf(call.before, call.id, call.r.versionString) \in {NotJson, Unreadable}
  /\ call.r.ret = EmptyObject

\* the text has a parent-directory segment
HasParentSegment(text) == \E i \in 1..Len(split(text, "/")) : split(text, "/")[i] = PARENT

\* the joined path is under the install root
UnderInstallRoot(path) == \A i \in 1..Len(path.segs) : path.segs[i] # PARENT

\* C12: readManifest and resolvePath only reach paths under the install
\* root, and an argument with a parent-directory segment is rejected: no file
\* is read for it and no path is returned for it.
C12_StaysUnderInstallRoot ==
  call.op \in {"readManifest", "resolvePath"} =>
    /\ \A i \in 1..Len(call.r.ops) : UnderInstallRoot(call.r.ops[i].arg)
    /\ call.r.ret.t = "string" => UnderInstallRoot(call.r.ret)
    /\ (HasParentSegment(call.id) \/ HasParentSegment(call.r.versionString)) =>
         /\ call.r.ops = <<>>
         /\ call.r.threw \/ call.r.ret.t # "string"

\* C15: listInstalledExtensionIds, isSetForRemoval and listInstalledVersions
\* never throw, whatever the manifests hold, and a listInstalledVersions scan
\* loses no valid directory to a bad entry beside it.
C15_DiscoveryTotal ==
  call.op \in {"listInstalledExtensionIds", "isSetForRemoval", "listInstalledVersions"} =>
    /\ ~call.r.threw
    /\ call.op = "listInstalledVersions" =>
         ValidDirs(call.before, call.id) \subseteq
           {GetProp(call.r.v[i], "versionString").v : i \in 1..Len(call.r.v)}

C16_AtMostOneValidCurrent ==
  (AtUpdateEntry /\ ~call.r.threw) =>
    \/ call.r.ret = Undefined
    \/ /\ call.r.ret.t = "object"
       /\ ReturnedName \in ValidDirs(call.before, call.id)
       /\ GetProp(call.r.ret, "extensionId") = Str(call.id)
       /\ GetProp(call.r.ret, "version") = Str(ExpectedVersion(ReturnedName))

\* updateEntry has returned a version beside a directory of a greater
\* version whose manifest declares another version
C16_Witness ==
  /\ AtUpdateEntry
  /\ ReturnsVersion
  /\ D_2_0_0_abc \in InvalidDirs(call.before, call.id)
  /\ call.before[call.id].dirs[D_2_0_0_abc].manifest = ManifestDoc(Str(ext1), Str(V_1_9_9), Undefined)
  /\ Cardinality(ValidDirs(call.before, call.id)) > 1

\* the directories an upgrade has to delete: the valid ones it did not return
Superseded == ValidDirs(call.before, call.id) \ {ReturnedName}

\* C19: in an upgrade every superseded directory has its own fs.remove,
\* whether or not a removal before it failed, nothing is thrown to the
\* caller by a removal, and the version returned is the greatest one.
C19_RemovalsIndependent ==
  (/\ AtUpdateEntry
   /\ ~call.before[call.id].flag
   /\ ReturnsVersion
   /\ Cardinality(ValidDirs(call.before, call.id)) > 1) =>
    /\ \A name \in Superseded :
         \E i \in 1..Len(call.r.removes) : call.r.removes[i] = pathJoin(<<call.id, name>>)
    /\ IsGreatest(call.before, call.id, ReturnedName)

\* updateEntry has returned, and the call before it was updateEntry of the
\* same id
AfterUpdateEntry ==
  /\ AtUpdateEntry
  /\ prev.op = "updateEntry"
  /\ prev.id = call.id

\* C13: from one updateEntry of an id to the next, nothing else writing, the
\* set of valid version directories does not grow, and when both calls
\* report a version it is the same one.
C13_NeverOscillates ==
  AfterUpdateEntry =>
    /\ ValidDirs(call.before, call.id) \subseteq ValidDirs(prev.before, call.id)
    /\ (ReturnsVersion /\ ~prev.r.threw /\ prev.r.ret.t = "object") => call.r.ret = prev.r.ret

\* the outcome the disk calls for: Removed, Upgraded, Unchanged or Absent
OutcomeFor(d, id) ==
  IF d[id].flag THEN "Removed"
  ELSE IF Cardinality(ValidDirs(d, id)) > 1 THEN "Upgraded"
  ELSE IF Cardinality(ValidDirs(d, id)) = 1 THEN "Unchanged"
  ELSE "Absent"

\* the value has a field that is a list
CarriesList(v) == v.t = "object" /\ \E k \in DOMAIN v.props : v.props[k].t = "array"

\* C17: what updateEntry returns tells which outcome occurred (two calls
\* that return the same value had the same outcome), and the value returned
\* by an upgrade holds the version kept and the list of the versions it
\* targeted for removal.
C17_ReturnTellsOutcome ==
  /\ (AfterUpdateEntry /\ ~call.r.threw /\ ~prev.r.threw /\ call.r.ret = prev.r.ret) =>
       OutcomeFor(call.before, call.id) = OutcomeFor(prev.before, call.id)
  /\ (AtUpdateEntry /\ ~call.r.threw /\ OutcomeFor(call.before, call.id) = "Upgraded") =>
       CarriesList(call.r.ret)

\* C20: after an updateEntry that found the sentinel, the next updateEntry of
\* the id, as long as the root is there, finds the sentinel too: it returns
\* nothing (Removed) and hands the root to fs.remove again.
C20_SentinelPersists ==
  (AfterUpdateEntry /\ prev.r.flagged /\ RootExists(call.before, call.id)) =>
    /\ ~call.r.threw
    /\ call.r.flagged
    /\ call.r.ret = Undefined
    /\ \E i \in 1..Len(call.r.removes) : call.r.removes[i] = pathJoin(<<call.id>>)

\* the names a version directory can have
DirNames == {p.name : p \in Packages}

\* C18: when updateEntry is called again and again on a root that starts
\* with several valid version directories and no sentinel, the root comes to
\* hold exactly one valid version directory, the one of the greatest version.
C18_ConvergesToGreatest ==
  \A name \in DirNames :
    (/\ ~disk[ext1].flag
     /\ Cardinality(ValidDirs(disk, ext1)) > 1
     /\ IsGreatest(disk, ext1, name)) => <>(ValidDirs(disk, ext1) = {name})


\* the fs calls of the scan
ScanCalls == {"readdirSync", "readJsonSync"}

\* C23: in one updateEntry the first fs call is the flag check; the scan is
\* made only when the flag check answered that the flag is not set, and after
\* it; every fs.remove comes after the flag check and after every call of the
\* scan.
C23_StepsInOrder ==
  AtUpdateEntry =>
    LET ops == call.r.ops
    IN /\ Len(ops) >= 1
       /\ ops[1] = FsCall("existsSync", pathJoin(<<call.id, UNINSTALL_FLAG>>))
       /\ \A i \in 2..Len(ops) : ops[i].op # "existsSync"
       /\ \A i \in 1..Len(ops) :
            ops[i].op \in ScanCalls => i > 1 /\ ~call.r.flagged
       /\ \A i, j \in 1..Len(ops) :
            ops[i].op = "remove" /\ ops[j].op \in ScanCalls \cup {"existsSync"} => j < i

\* an upgrade: the flag was not set, several directories were scanned and a
\* removal was issued
C23_Witness ==
  /\ AtUpdateEntry
  /\ ~call.r.flagged
  /\ Len(call.r.versions) >= 2
  /\ \E i \in 1..Len(call.r.ops) : call.r.ops[i].op = "remove"
  /\ Cardinality({i \in 1..Len(call.r.ops) : call.r.ops[i].op = "readJsonSync"}) >= 2

\* the positions of the underscores of a directory name
Underscores(name) == {k \in 1..Len(name) : name[k] = "_"}

\* the text after the first underscore of a directory name, empty when the
\* name has none
AfterFirstUnderscore(name) ==
  IF Underscores(name) = {} THEN <<>>
  ELSE SubSeq(name, (CHOOSE k \in Underscores(name) : \A j \in Underscores(name) : k <= j) + 1,
              Len(name))

\* C25: every VersionInfo that listInstalledVersions returns names a
\* directory of the root in versionString, carries the canonical version of
\* the text before the first underscore of that name, and as revision
\* everything after that first underscore, further underscores kept, the
\* empty text when the name has no underscore.
C25_VersionInfoFields ==
  (call.op = "listInstalledVersions" /\ ~call.r.threw) =>
    \A i \in 1..Len(call.r.v) :
      LET info == call.r.v[i]
          name == GetProp(info, "versionString").v
      IN /\ DirExists(call.before, call.id, name)
         /\ ExpectedVersion(name) # <<>>
         /\ GetProp(info, "version") = Str(ExpectedVersion(name))
         /\ GetProp(info, "revision") = Str(AfterFirstUnderscore(name))
         /\ GetProp(info, "extensionId") = Str(call.id)

\* a scan that returned a name with two underscores and a name with none
C25_Witness ==
  /\ call.op = "listInstalledVersions"
  /\ ~call.r.threw
  /\ \E i, j \in 1..Len(call.r.v) :
       /\ GetProp(call.r.v[i], "versionString") = Str(D_v1_2_0_a_b)
       /\ GetProp(call.r.v[i], "revision") = Str(<<"a", "_", "b">>)
       /\ GetProp(call.r.v[j], "versionString") = Str(D_3_0_0)
       /\ GetProp(call.r.v[j], "revision") = Str(<<>>)

\* the valid directories of the greatest version the root of the call held
TiedGreatest == {n \in ValidDirs(call.before, call.id) : IsGreatest(call.before, call.id, n)}

\* the position of the manifest read of a directory in the fs calls of the call
ScanPosition(name) ==
  CHOOSE i \in 1..Len(call.r.ops) :
    call.r.ops[i] = FsCall("readJsonSync", pathJoin(<<call.id, name, MANIFEST_JSON>>))

\* the directory names of the VersionInfos the call chose to remove
TargetNames == {GetProp(call.r.targets[i], "versionString").v : i \in 1..Len(call.r.targets)}

\* C24: when the scan of updateEntry produced several valid candidates of
\* the greatest version, which differ in revision alone, one of them is
\* returned, every other valid candidate is chosen for removal, once, and the
\* one returned is the one of them that the scan produced last.
C24_TieKeepsOneByScanOrder ==
  (/\ AtUpdateEntry
   /\ ~call.r.threw
   /\ ~call.r.flagged
   /\ Cardinality(TiedGreatest) >= 2) =>
    /\ ReturnsVersion
    /\ ReturnedName \in TiedGreatest
    /\ TargetNames = ValidDirs(call.before, call.id) \ {ReturnedName}
    /\ Len(call.r.targets) = Cardinality(TargetNames)
    /\ Len(call.r.removes) = Len(call.r.targets)
    /\ \A n \in TiedGreatest : ScanPosition(n) <= ScanPosition(ReturnedName)

\* 1.1.0_r1 and 1.1.0_r2 tie above 1.0.0_r1; 1.1.0_r1 was scanned last and
\* is returned
C24_Witness ==
  /\ AtUpdateEntry
  /\ ~call.r.threw
  /\ ~call.r.flagged
  /\ TiedGreatest = {D_1_1_0_r1, D_1_1_0_r2}
  /\ ValidDirs(call.before, call.id) = {D_1_0_0_r1, D_1_1_0_r1, D_1_1_0_r2}
  /\ ReturnedName = D_1_1_0_r1
  /\ ScanPosition(D_1_1_0_r2) < ScanPosition(D_1_1_0_r1)

\* the path p is the path q or a directory above it
IsPrefix(p, q) == Len(p) <= Len(q) /\ SubSeq(q, 1, Len(p)) = p

\* C26: when updateEntry returns a VersionInfo, the directory it names is not
\* among the directories the call chose to remove, and no removal the call
\* started is of that directory or of a directory above it: the directory
\* and its manifest are out of reach of every deletion the call issued.
C26_SurvivorNotDeleted ==
  (AtUpdateEntry /\ ReturnsVersion) =>
    /\ DirExists(call.before, call.id, ReturnedName)
    /\ ReturnedName \notin TargetNames
    /\ \A p \in StartedRemovals(call.r.removes) : ~IsPrefix(p, <<call.id, ReturnedName>>)
    /\ DirExists(disk, call.id, ReturnedName)
    /\ disk[call.id].dirs[ReturnedName] = call.before[call.id].dirs[ReturnedName]

\* an upgrade that returned a version and issued removals for the others
C26_Witness ==
  /\ AtUpdateEntry
  /\ ReturnsVersion
  /\ Len(call.r.targets) >= 1
  /\ Len(call.r.removes) = Len(call.r.targets)
  /\ ReturnedName \in ValidDirs(disk, call.id)

\* the disk with the root of one extension id alone
Alone(d, a) == [id \in ExtensionIds |-> IF id = a THEN d[id] ELSE NoRoot]

\* the fs calls of an outcome are all of paths under the root of a
TouchesOnly(r, a) ==
  \A i \in 1..Len(r.ops) :
    r.ops[i].arg.t = "string" =>
      /\ Len(r.ops[i].arg.segs) >= 1
      /\ r.ops[i].arg.segs[1] = a

\* C22: updateEntry(a) makes fs calls on paths under the root of a alone,
\* returns what it would return were the root of a alone on the disk, and
\* starts removals under the root of a alone; the root of an id b changes
\* only by a removal that an updateEntry(b) started. Calls and removals of
\* distinct ids therefore commute: every interleaving gives the outcomes and
\* the disk of either sequential order.
C22_ReconcilesIndependent ==
  [][/\ \A b \in ExtensionIds :
          disk'[b] # disk[b] => \E p \in jobs : p[1] = b
     /\ (call = NoCall /\ call'.op = "updateEntry") =>
          /\ TouchesOnly(call'.r, call'.id)
          /\ \A p \in jobs' \ jobs : p[1] = call'.id
          /\ \E order \in Listings(Children(disk, call'.id)) :
               call'.r = updateEntry(Alone(disk, call'.id), call'.id, order)]_vars

\* updateEntry of one id returns a version while the removal that the
\* updateEntry of the other id started is half-way through its root
C22_Witness ==
  /\ AtUpdateEntry
  /\ ReturnsVersion
  /\ prev.op = "updateEntry"
  /\ prev.id # call.id
  /\ prev.r.flagged
  /\ <<prev.id>> \in jobs
  /\ RootExists(disk, prev.id)
  /\ disk[prev.id] # prev.before[prev.id]

\* the names readdirSync gave the call
ListedNames == {call.listed[i] : i \in 1..Len(call.listed)}

\* C21: with an installer writing a version directory while updateEntry
\* scans, the directory updateEntry returns was valid when its manifest was
\* read, every directory it chooses to remove was valid when scanned and is
\* of a version no greater than that of the valid directory returned, and
\* nothing else is removed: a directory that fails validation when it is
\* scanned is neither the survivor nor the cause of a removal.
C21_InvalidAtScanNeverWins ==
  (AtUpdateEntry /\ ~call.r.flagged) =>
    /\ ReturnsVersion => ReturnedName \in call.validAtScan
    /\ TargetNames # {} => ReturnsVersion
    /\ TargetNames \subseteq call.validAtScan
    /\ \A n \in TargetNames :
         Precedence(ExpectedVersion(n)) <= Precedence(ExpectedVersion(ReturnedName))
    /\ \A p \in StartedRemovals(call.r.removes) : Len(p) = 2 /\ p[2] \in TargetNames

\* updateEntry returned a version although the root now holds a valid
\* directory of a greater version, which it listed and found invalid when it
\* read its manifest: the installer finished it during the call
C21_Witness ==
  /\ AtUpdateEntry
  /\ ReturnsVersion
  /\ \E n \in ListedNames \ call.validAtScan :
       /\ ValidDir(disk, call.id, n)
       /\ Precedence(ExpectedVersion(n)) > Precedence(ExpectedVersion(ReturnedName))
       /\ \E i \in 1..Len(call.r.ops) :
            call.r.ops[i] = FsCall("readJsonSync", pathJoin(<<call.id, n, MANIFEST_JSON>>))

\* C27: the directories updateEntry chooses to remove, and the paths of the
\* removals it starts, are directories of the listing readdirSync gave that
\* call; a directory the installer adds after the listing is never among
\* them.
C27_RemovalsWithinSnapshot ==
  (AtUpdateEntry /\ ~call.r.flagged) =>
    /\ TargetNames \subseteq ListedNames
    /\ \A p \in StartedRemovals(call.r.removes) :
         Len(p) = 2 /\ p[1] = call.id /\ p[2] \in ListedNames

\* an upgrade issued removals, and the root holds a valid directory that came
\* after the listing and is older than the version returned
C27_Witness ==
  /\ AtUpdateEntry
  /\ ReturnsVersion
  /\ Len(call.r.targets) >= 1
  /\ Len(call.r.removes) >= 1
  /\ \E n \in ValidDirs(disk, call.id) \ ListedNames :
       Precedence(ExpectedVersion(n)) < Precedence(ExpectedVersion(ReturnedName))

\* C28: once updateEntry has returned from the removal of a flagged root,
\* the removal takes away nothing that was not under the root when the call
\* handed it to fs.remove: a version directory the installer makes after the
\* return is not deleted.
C28_RemovedIsComplete ==
  [][(/\ call.op = "updateEntry"
      /\ call.r.flagged
      /\ call' = call) =>
       (DOMAIN disk[call.id].dirs \ DOMAIN disk'[call.id].dirs) \subseteq call.handedOver]_vars
====
